---------------------------- MODULE Spec2Model ----------------------------
(***************************************************************************)
(* Model of the serial link protocol engine of uvk5-remote (src/comm.py):  *)
(* the byte-wise frame decoder (process_byte), the dispatcher              *)
(* (parse_packet), the screen decoder (parse_screen), the command encoder  *)
(* (send_command), the cipher and the CRC.                                 *)
(*                                                                         *)
(* Bytes are integers 0..255, byte strings are sequences of bytes.  The    *)
(* bitmap screen_data (a 64x128 array of 0/1) is represented by the set of *)
(* its lit pixels <<row, column>>: the array's shape never changes, so the *)
(* set of cells holding 1 determines it.                                   *)
(***************************************************************************)
EXTENDS Integers, Sequences, FiniteSets, TLC

VARIABLES
    transport,       \* comm.transport: TRUE when a transport object is held
    protocol_transport, \* protocol.transport: TRUE from connection_made to connection_lost
    written,         \* the byte strings handed to transport.write, in order
    sent,            \* history: the (cmd, args) of each send_command that wrote
    returned,        \* history: what each send_command call returned
    stage,           \* comm.stage
    data,            \* comm.data, the accumulator
    p_len,           \* comm.p_len
    p_cnt,           \* comm.p_cnt
    screen_data,     \* comm.screen_data, as the set of lit <<row, col>>
    line,            \* inbound bytes on the serial line, not yet read
    rx,              \* history: every byte handed to data_received so far
    dropped,         \* history: bytes of a chunk skipped when its loop was aborted
    nitems,          \* history: frames and noise bursts put on the line
    emitted,         \* history: one record per parse_packet call
    notified,        \* history: number of on_screen_update calls
    shown,           \* history: the bitmap as the last on_screen_update call found it
    probe            \* a call of crypt under examination: its arguments and result

vars == <<transport, protocol_transport, written, sent, returned, stage, data, p_len,
          p_cnt, screen_data, line, rx, dropped, nitems, emitted, notified, shown,
          probe>>

---------------------------------------------------------------------------
(* Bounds of the exploration *)

MaxSends == 2          \* send_command calls per behaviour
MaxItems == 2          \* frames or noise bursts the radio puts on the line
MaxChunk == 2          \* chunk sizes explored besides "all that is waiting"
MaxLoop == 64          \* longest written frame fed back through the line

---------------------------------------------------------------------------
(* Program constants *)

SyncAB == 171          \* 0xAB
SyncCD == 205          \* 0xCD
SyncB5 == 181          \* 0xB5
FootDC == 220          \* 0xDC
FootBA == 186          \* 0xBA
KeyPress == 2049       \* Packet.KeyPress  0x801
GetScreen == 2051      \* Packet.GetScreen 0x803
ScreenRows == 64
ScreenCols == 128
CrcPoly == 4129        \* 0x1021
STOP_KEY == 19

xor_array ==
    <<22, 108, 20, 230, 46, 145, 13, 64, 33, 53, 213, 64, 19, 3, 233, 128>>

(* main.py registers the callback right after constructing QuanshengComm *)
on_screen_update == TRUE

---------------------------------------------------------------------------
(* Python's bit operators on non-negative ints *)

RECURSIVE BitXor(_, _)
BitXor(a, b) ==
    IF a = 0 THEN b
    ELSE IF b = 0 THEN a
    ELSE (((a % 2) + (b % 2)) % 2) + 2 * BitXor(a \div 2, b \div 2)

(* (n >> k) & 0xFF *)
ByteAt(n, k) == (n \div (2 ^ k)) % 256

(* [n & 0xFF, (n >> 8) & 0xFF] *)
LE16(n) == <<ByteAt(n, 0), ByteAt(n, 8)>>

(* mutant of crypt: the table entry is added, not XORed *)
cryptAdd(byte, xor_index) == (byte + xor_array[(xor_index % 16) + 1]) % 256

(* crypt(byte, xor_index): byte ^ xor_array[xor_index & 15] *)
crypt(byte, xor_index) == BitXor(byte, xor_array[(xor_index % 16) + 1])

(* crc16(byte, crc): one byte folded into the running CRC *)
RECURSIVE CrcRounds(_, _)
CrcRounds(crc, n) ==
    IF n = 0 THEN crc
    ELSE LET s == crc * 2
         IN CrcRounds(IF s > 65535 THEN BitXor(s, CrcPoly) % 65536 ELSE s, n - 1)

crc16(byte, crc) == CrcRounds(BitXor(crc, byte * 256), 8)

(* "for i in range(4, len(data)): crc = crc16(data[i], crc)" over s[lo..hi].  *)
(* The range is halved and the left half evaluated first, which keeps the     *)
(* evaluation depth logarithmic in the length; the result is that of the loop *)
RECURSIVE CrcOver(_, _, _, _)
CrcOver(s, crc, lo, hi) ==
    IF lo > hi THEN crc
    ELSE IF lo = hi THEN crc16(s[lo], crc)
    ELSE LET mid == (lo + hi) \div 2
             c1 == CrcOver(s, crc, lo, mid)
         IN IF c1 >= 0 THEN CrcOver(s, c1, mid + 1, hi) ELSE c1

---------------------------------------------------------------------------
(* parse_screen *)

(* the pixels one triplet writes: rows row..row+7 of column col, cut at the   *)
(* first row >= 64 (the "break")                                              *)
TripletCells(col, row) ==
    {<<row + bit, col>> : bit \in {b \in 0..7 : row + b < ScreenRows}}

(* one iteration of the loop over the triplets *)
ApplyTriplet(screen, pixels, col, rowgroup) ==
    LET row == rowgroup * 8
    IN IF col >= ScreenCols \/ row >= ScreenRows
       THEN screen
       ELSE LET lit == {<<row + bit, col>> :
                          bit \in {b \in 0..7 : row + b < ScreenRows
                                                /\ ByteAt(pixels, b) % 2 = 1}}
            IN (screen \ TripletCells(col, row)) \cup lit

(* "for i in range(0, len(data), 3)" from 1-based position i on *)
RECURSIVE ApplyTriplets(_, _, _)
ApplyTriplets(screen, d, i) ==
    IF i > Len(d) THEN screen
    ELSE ApplyTriplets(ApplyTriplet(screen, d[i], d[i + 1], d[i + 2]), d, i + 3)

(* mutants of StartScreen: a full update that keeps the retained array, an *)
(* incremental update that starts from zeros                               *)
StartScreenKeep(cur, diff) == cur

StartScreenFresh(cur, diff) == {}

(* the array the loop starts from: fresh zeros for a full update, the *)
(* retained array itself for a differential one                        *)
StartScreen(cur, diff) == IF diff = 0 THEN {} ELSE cur

(* mutant of ParseScreen: the length is checked after the loop has run over *)
(* the whole triplets                                                       *)
ParseScreenLate(S, d, diff) ==
    LET whole == SubSeq(d, 1, Len(d) - (Len(d) % 3))
        R == [S EXCEPT !.screen_data =
                          ApplyTriplets(StartScreen(S.screen_data, diff), whole, 1)]
    IN IF Len(d) % 3 # 0 THEN [R EXCEPT !.err = "ValueError"] ELSE R

(* parse_screen(data, diff) on session record S: raises ValueError before *)
(* touching anything, otherwise stores the resulting array                 *)
ParseScreen(S, d, diff) ==
    IF Len(d) % 3 # 0
    THEN [S EXCEPT !.err = "ValueError"]
    ELSE [S EXCEPT !.screen_data = ApplyTriplets(StartScreen(S.screen_data, diff), d, 1)]

---------------------------------------------------------------------------
(* parse_packet *)

From(d, k) == SubSeq(d, k, Len(d))

(* the on_screen_update call that follows a parse_screen that returned; the *)
(* callback (main.py, refresh_screen) reads comm.screen_data                *)
Notify(S) ==
    IF S.err = "none" /\ on_screen_update
    THEN [S EXCEPT !.notified = @ + 1, !.shown = S.screen_data]
    ELSE S

(* mutant of Dispatch: the callback runs before parse_screen *)
DispatchNotifyFirst(S, d) ==
    IF Len(d) < 2 THEN S
    ELSE IF d[1] + d[2] * 256 = GetScreen
         THEN IF Len(d) < 5
              THEN [S EXCEPT !.err = "IndexError"]
              ELSE ParseScreen(Notify(S), From(d, 6), d[5])
         ELSE S

(* the body of parse_packet; data[2], data[3], data[4] raise IndexError on a *)
(* GetScreen packet shorter than 5 bytes                                     *)
Dispatch(S, d) ==
    IF Len(d) < 2 THEN S
    ELSE IF d[1] + d[2] * 256 = GetScreen
         THEN IF Len(d) < 5
              THEN [S EXCEPT !.err = "IndexError"]
              ELSE Notify(ParseScreen(S, From(d, 6), d[5]))
         ELSE S

(* parse_packet(self.data), with the call and its outcome put on record *)
ParsePacket(S) ==
    LET R == Dispatch(S, S.data)
    IN [R EXCEPT !.emitted = Append(@, [data |-> S.data, err |-> R.err])]

---------------------------------------------------------------------------
(* process_byte, one definition per stage *)

StageIdle(S, byte) ==
    IF byte = SyncAB THEN [S EXCEPT !.stage = "CD"]
    ELSE IF byte = SyncB5 THEN [S EXCEPT !.stage = "UiType"]
    ELSE S

StageCD(S, byte) ==
    [S EXCEPT !.stage = IF byte = SyncCD THEN "LenLSB" ELSE "Idle"]

StageLenLSB(S, byte) ==
    [S EXCEPT !.p_len = byte, !.stage = "LenMSB"]

(* mutant of StageLenMSB: the accumulator of the frame before is kept *)
StageLenMSBKeep(S, byte) ==
    [S EXCEPT !.p_len = @ + byte * 256, !.p_cnt = 0, !.stage = "Data"]

(* p_len |= byte << 8: p_len is a byte here, so the OR is a sum *)
StageLenMSB(S, byte) ==
    [S EXCEPT !.p_len = @ + byte * 256,
              !.data = <<>>, !.p_cnt = 0, !.stage = "Data"]

(* mutant of StageData: the cipher position runs one ahead *)
StageDataShifted(S, byte) ==
    [S EXCEPT !.data = Append(@, crypt(byte, S.p_cnt + 1)),
              !.p_cnt = @ + 1,
              !.stage = IF S.p_cnt + 1 >= S.p_len THEN "CrcLSB" ELSE "Data"]

StageData(S, byte) ==
    [S EXCEPT !.data = Append(@, crypt(byte, S.p_cnt)),
              !.p_cnt = @ + 1,
              !.stage = IF S.p_cnt + 1 >= S.p_len THEN "CrcLSB" ELSE "Data"]

StageCrcLSB(S, byte) == [S EXCEPT !.stage = "CrcMSB"]

(* mutant of StageCrcMSB: the high checksum byte is verified *)
StageCrcMSBStrict(S, byte) ==
    [S EXCEPT !.stage =
        IF crypt(byte, S.p_cnt + 1) = ByteAt(CrcOver(S.data, 0, 1, Len(S.data)), 8)
        THEN "DC" ELSE "Idle"]

StageCrcMSB(S, byte) == [S EXCEPT !.stage = "DC"]

StageDC(S, byte) ==
    [S EXCEPT !.stage = IF byte = FootDC THEN "BA" ELSE "Idle"]

(* mutant of StageBA: the frame is handed over whatever the last byte is *)
StageBAAny(S, byte) == ParsePacket([S EXCEPT !.stage = "Idle"])

StageBA(S, byte) ==
    IF byte = FootBA
    THEN ParsePacket([S EXCEPT !.stage = "Idle"])
    ELSE [S EXCEPT !.stage = "Idle"]

(* no branch of process_byte names Stage.UiType *)
StageUiType(S, byte) == S

ProcessByte(S, byte) ==
    CASE S.stage = "Idle"   -> StageIdle(S, byte)
      [] S.stage = "CD"     -> StageCD(S, byte)
      [] S.stage = "LenLSB" -> StageLenLSB(S, byte)
      [] S.stage = "LenMSB" -> StageLenMSB(S, byte)
      [] S.stage = "Data"   -> StageData(S, byte)
      [] S.stage = "CrcLSB" -> StageCrcLSB(S, byte)
      [] S.stage = "CrcMSB" -> StageCrcMSB(S, byte)
      [] S.stage = "DC"     -> StageDC(S, byte)
      [] S.stage = "BA"     -> StageBA(S, byte)
      [] S.stage = "UiType" -> StageUiType(S, byte)

(* data_received: "for byte in data: process_byte(byte)" over chunk[lo..hi]. *)
(* An exception raised by process_byte leaves the loop: the bytes after it   *)
(* are never processed.  The range is halved to keep the evaluation shallow. *)
RECURSIVE Feed(_, _, _, _)
Feed(S, chunk, lo, hi) ==
    IF lo > hi THEN S
    ELSE IF S.err # "none" THEN [S EXCEPT !.dropped = @ + (hi - lo + 1)]
    ELSE IF lo = hi THEN ProcessByte(S, chunk[lo])
    ELSE LET mid == (lo + hi) \div 2
             S1 == Feed(S, chunk, lo, mid)
         IN IF S1.err # "none"
            THEN [S1 EXCEPT !.dropped = @ + (hi - mid)]
            ELSE Feed(S1, chunk, mid + 1, hi)


---------------------------------------------------------------------------
(* send_command *)

(* An argument is [t |-> "int", v |-> n], [t |-> "bytes", v |-> byte string], *)
(* [t |-> "list", v |-> sequence of ints], or [t |-> "zeros", v |-> n] for    *)
(* the bytes object bytes(n), which is n zero bytes                           *)
IntArg(n) == [t |-> "int", v |-> n]
BytesArg(b) == [t |-> "bytes", v |-> b]
ListArg(l) == [t |-> "list", v |-> l]
ZeroBytesArg(n) == [t |-> "zeros", v |-> n]

(* mutant of SerializeArg: every int takes four bytes *)
SerializeArgFixed(a) ==
    CASE a.t = "int" ->
           <<ByteAt(a.v, 0), ByteAt(a.v, 8), ByteAt(a.v, 16), ByteAt(a.v, 24)>>
      [] a.t = "bytes" -> a.v
      [] a.t = "zeros" -> [i \in 1..a.v |-> 0]
      [] a.t = "list" -> [i \in 1..Len(a.v) |-> a.v[i] % 256]

(* what one argument adds to params *)
SerializeArg(a) ==
    CASE a.t = "int" ->
           IF a.v <= 255 THEN <<a.v>>
           ELSE IF a.v <= 65535 THEN <<ByteAt(a.v, 0), ByteAt(a.v, 8)>>
           ELSE <<ByteAt(a.v, 0), ByteAt(a.v, 8), ByteAt(a.v, 16), ByteAt(a.v, 24)>>
      [] a.t = "bytes" -> a.v
      [] a.t = "zeros" -> [i \in 1..a.v |-> 0]
      [] a.t = "list" -> [i \in 1..Len(a.v) |-> a.v[i] % 256]

(* "for arg in args" *)
RECURSIVE SerializeArgs(_)
SerializeArgs(args) ==
    IF args = <<>> THEN <<>>
    ELSE SerializeArg(Head(args)) \o SerializeArgs(Tail(args))

(* mutant of Plain: no length of params between command id and params *)
PlainNoLength(cmd, args) ==
    <<ByteAt(cmd, 0), ByteAt(cmd, 8)>> \o SerializeArgs(args)

(* data[4:] as it stands before the CRC loop: the command id, then          *)
(* data[6:8] = the length of params (the slice lies at the end of the       *)
(* 6-byte array, so the two bytes are appended), then params                *)
Plain(cmd, args) ==
    LET params == SerializeArgs(args)
    IN <<ByteAt(cmd, 0), ByteAt(cmd, 8)>> \o LE16(Len(params)) \o params

(* mutant of TotalLen: the two checksum bytes are counted *)
TotalLenWithCrc(n) == n - 6

(* total_len = len(data) - 8, taken when header, body, CRC and footer are in *)
TotalLen(n) == n - 8

(* mutant of Assemble: the cipher position starts again at 0 for the *)
(* checksum bytes                                                    *)
AssembleCrcRestart(plain, crc) ==
    LET N == Len(plain)
    IN <<SyncAB, SyncCD>> \o LE16(TotalLen(N + 8))
       \o [i \in 1..N |-> crypt(plain[i], i - 1)]
       \o <<crypt(ByteAt(crc, 0), 0), crypt(ByteAt(crc, 8), 1)>>
       \o <<FootDC, FootBA>>

(* the bytes handed to transport.write for a body whose plaintext is plain   *)
(* and whose CRC is crc                                                      *)
Assemble(plain, crc) ==
    LET N == Len(plain)
    IN <<SyncAB, SyncCD>> \o LE16(TotalLen(N + 8))
       \o [i \in 1..N |-> crypt(plain[i], i - 1)]
       \o <<crypt(ByteAt(crc, 0), N), crypt(ByteAt(crc, 8), N + 1)>>
       \o <<FootDC, FootBA>>

---------------------------------------------------------------------------
(* What the radio puts on the line.  A frame is built from a plaintext body *)
(* and two checksum bytes, sent as they are: the decoder never looks at     *)
(* them.                                                                    *)

Cipher(plain) == [i \in 1..Len(plain) |-> crypt(plain[i], i - 1)]

DeviceFrame(plain, c) ==
    <<SyncAB, SyncCD>> \o LE16(Len(plain)) \o Cipher(plain) \o c \o <<FootDC, FootBA>>

(* the checksum bytes a radio computing the CRC as send_command does sends *)
GoodCrc(plain) ==
    LET crc == CrcOver(plain, 0, 1, Len(plain))
    IN <<crypt(ByteAt(crc, 0), Len(plain)), crypt(ByteAt(crc, 8), Len(plain) + 1)>>

ScreenBody(diff, triplets) == LE16(GetScreen) \o <<0, 0, diff>> \o triplets

ReplyBody    == <<21, 5, 0, 0>>                        \* command 0x515
FullOne      == ScreenBody(0, <<1, 0, 0>>)             \* pixel (0, 0)
FullEmpty    == ScreenBody(0, <<>>)
FullTwo      == ScreenBody(0, <<3, 0, 0,  2, 0, 0,  128, 127, 7>>)
DiffOne      == ScreenBody(1, <<2, 5, 1,  255, 128, 0,  255, 0, 8>>)
BadFull      == ScreenBody(0, <<1, 0, 0, 1>>)          \* 4 bytes of triplets
BadDiff      == ScreenBody(1, <<1, 0, 0, 1>>)

RadioFrames ==
    {DeviceFrame(p, GoodCrc(p)) :
        p \in {ReplyBody, FullOne, FullEmpty, DiffOne, BadFull, BadDiff}}
    \cup {DeviceFrame(FullTwo, <<FootDC, FootBA>>), DeviceFrame(<<>>, <<17, 34>>)}

(* a frame whose last byte was garbled on the line *)
BadFooter == <<SyncAB, SyncCD, 1, 0, 0, 0, 0, FootDC, 0>>

NoiseBursts == {<<SyncAB>>, <<SyncB5>>, BadFooter}

---------------------------------------------------------------------------
(* The state machine *)

Init ==
    /\ transport = FALSE
    /\ protocol_transport = FALSE
    /\ written = <<>>
    /\ sent = <<>>
    /\ returned = <<>>
    /\ stage = "Idle"
    /\ data = <<>>
    /\ p_len = 0
    /\ p_cnt = 0
    /\ screen_data = {}
    /\ line = <<>>
    /\ rx = <<>>
    /\ dropped = 0
    /\ nitems = 0
    /\ emitted = <<>>
    /\ notified = 0
    /\ shown = {}
    /\ probe = <<>>

decoderVars ==
    <<stage, data, p_len, p_cnt, screen_data, rx, dropped, emitted, notified, shown>>

(* connect() returning True: the transport is stored, and connection_made *)
(* has stored it in the protocol                                          *)
Connect ==
    /\ ~transport
    /\ transport' = TRUE
    /\ protocol_transport' = TRUE
    /\ UNCHANGED <<probe, written, sent, returned, line, nitems, decoderVars>>

(* the value of the bare "return" taken when comm.transport is None, and the *)
(* value of a call that runs to the end of the function                      *)
ReturnNoConnection == "None"

ReturnSent == "None"

(* mutant of SendCommand: the frame is built in the decoder's accumulator *)
SendCommandSharedBuffer(cmd, args) ==
    /\ Len(returned) < MaxSends
    /\ IF ~transport
       THEN /\ UNCHANGED <<written, sent, data>>
            /\ returned' = Append(returned, ReturnNoConnection)
       ELSE \E plain \in {Plain(cmd, args)} :
            \E crc \in {CrcOver(plain, 0, 1, Len(plain))} :
               /\ written' = Append(written, Assemble(plain, crc))
               /\ sent' = Append(sent, [cmd |-> cmd, args |-> args])
               /\ returned' = Append(returned, ReturnSent)
               /\ data' = Assemble(plain, crc)
    /\ UNCHANGED <<probe, transport, protocol_transport, line, nitems, stage, p_len,
                   p_cnt, screen_data, rx, dropped, emitted, notified, shown>>

(* send_command(cmd, *args): returns at once without a transport, otherwise *)
(* builds the frame and hands it to transport.write in one call             *)
SendCommand(cmd, args) ==
    /\ Len(returned) < MaxSends
    /\ IF ~transport
       THEN /\ UNCHANGED <<written, sent>>
            /\ returned' = Append(returned, ReturnNoConnection)
       ELSE \E plain \in {Plain(cmd, args)} :
            \E crc \in {CrcOver(plain, 0, 1, Len(plain))} :
               /\ written' = Append(written, Assemble(plain, crc))
               /\ sent' = Append(sent, [cmd |-> cmd, args |-> args])
               /\ returned' = Append(returned, ReturnSent)
    /\ UNCHANGED <<probe, transport, protocol_transport, line, nitems, decoderVars>>

(* close(): nothing without a transport; otherwise transport.close(), after *)
(* which the port delivers no more bytes, and comm.transport = None         *)
Close ==
    /\ transport
    /\ transport' = FALSE
    /\ protocol_transport' = FALSE
    /\ UNCHANGED <<probe, written, sent, returned, line, nitems, decoderVars>>

(* QuanshengProtocol.connection_lost(exc): only the protocol's own field is *)
(* cleared, comm.transport keeps the transport object                       *)
ConnectionLost ==
    /\ protocol_transport
    /\ protocol_transport' = FALSE
    /\ UNCHANGED <<probe, transport, written, sent, returned, line, nitems, decoderVars>>

(* the radio sends a frame or the line picks up noise *)
RadioSends(f) ==
    /\ protocol_transport
    /\ nitems < MaxItems
    /\ line' = line \o f
    /\ nitems' = nitems + 1
    /\ UNCHANGED <<probe, transport, protocol_transport, written, sent, returned, decoderVars>>

(* the bytes of an earlier transport.write come back on the line *)
Loopback(i) ==
    /\ protocol_transport
    /\ nitems < MaxItems
    /\ i \in 1..Len(written)
    /\ Len(written[i]) <= MaxLoop
    /\ line' = line \o written[i]
    /\ nitems' = nitems + 1
    /\ UNCHANGED <<probe, transport, protocol_transport, written, sent, returned, decoderVars>>

(* the chunk sizes explored for n waiting bytes *)
ChunkSizes(n) == {k \in 1..n : k <= MaxChunk \/ k = n}

(* QuanshengProtocol.data_received(data) with the first k waiting bytes *)
DataReceived(k) ==
    /\ protocol_transport
    /\ k \in ChunkSizes(Len(line))
    /\ \E chunk \in {SubSeq(line, 1, k)} :
       \E S \in {Feed([stage |-> stage, data |-> data, p_len |-> p_len,
                       p_cnt |-> p_cnt, screen_data |-> screen_data,
                       emitted |-> emitted, notified |-> notified, shown |-> shown,
                       dropped |-> dropped, err |-> "none"], chunk, 1, k)} :
          /\ stage' = S.stage
          /\ data' = S.data
          /\ p_len' = S.p_len
          /\ p_cnt' = S.p_cnt
          /\ screen_data' = S.screen_data
          /\ emitted' = S.emitted
          /\ notified' = S.notified
          /\ shown' = S.shown
          /\ dropped' = S.dropped
          /\ rx' = rx \o chunk
    /\ line' = SubSeq(line, k + 1, Len(line))
    /\ UNCHANGED <<probe, transport, protocol_transport, written, sent, returned, nitems>>

(* main.py, button_released: send_command(Packet.KeyPress, KeyCode.STOP_KEY) *)
(* and then, from a task of its own, send_command(Packet.GetScreen, 1)       *)
SendInputs == {<<KeyPress, <<IntArg(STOP_KEY)>>>>, <<GetScreen, <<IntArg(1)>>>>}

(* the frames the radio sends in the sessions of Spec *)
LinkFrames == {DeviceFrame(p, GoodCrc(p)) : p \in {ReplyBody, FullOne}}

(* The program: sessions in which commands are sent and frames received in *)
(* any order, and the connection is closed by close() or lost, and may be  *)
(* opened again.                                                           *)
Next ==
    \/ Connect
    \/ Close
    \/ ConnectionLost
    \/ \E in \in SendInputs : SendCommand(in[1], in[2])
    \/ \E f \in LinkFrames : RadioSends(f)
    \/ \E k \in 1..Len(line) : DataReceived(k)

Spec == Init /\ [][Next]_vars

(* The receiving side on a connection that stays up, under every frame and *)
(* noise burst of RadioFrames and NoiseBursts.                             *)
NextRecv ==
    \/ Connect
    \/ \E f \in RadioFrames \cup NoiseBursts : RadioSends(f)
    \/ \E k \in 1..Len(line) : DataReceived(k)

SpecRecv == Init /\ [][NextRecv]_vars


---------------------------------------------------------------------------
(* Round trip: one send_command on a fresh session, whose written bytes are *)
(* fed back to the decoder, in any chunking.                                *)

BigArgLen == 65536 - 4

RoundTripCmds == {0, KeyPress, GetScreen, 65535}

RoundTripArgs ==
    {<<>>, <<IntArg(STOP_KEY)>>, <<IntArg(0)>>, <<IntArg(4660)>>, <<IntArg(305419896)>>,
     <<BytesArg(<<1, 0, 0>>)>>, <<ListArg(<<300, 1>>)>>,
     <<IntArg(0), BytesArg(<<SyncAB, SyncCD>>), IntArg(256)>>,
     <<IntArg(255), IntArg(256), IntArg(65535), IntArg(65536), IntArg(2147483647)>>}

RoundTripInputs ==
    (RoundTripCmds \X RoundTripArgs) \cup {<<KeyPress, <<ZeroBytesArg(BigArgLen)>>>>}

NextRT ==
    \/ Connect
    \/ \E in \in RoundTripInputs : written = <<>> /\ SendCommand(in[1], in[2])
    \/ nitems = 0 /\ Loopback(1)
    \/ \E k \in 1..Len(line) : DataReceived(k)

SpecRT == Init /\ [][NextRT]_vars

LenField(w) == w[3] + w[4] * 256

(* the payload region of a written frame, deciphered *)
PlainOf(w) == [i \in 1..(Len(w) - 8) |-> crypt(w[i + 4], i - 1)]

(* a decoder as constructed, and what it has become after process_byte has *)
(* been called with each byte of w in order                                 *)
Fresh ==
    [stage |-> "Idle", data |-> <<>>, p_len |-> 0, p_cnt |-> 0, screen_data |-> {},
     emitted |-> <<>>, notified |-> 0, shown |-> {}, dropped |-> 0, err |-> "none"]

Decoded(w) == Feed(Fresh, w, 1, Len(w))

(* the payload of written frame i fits the 16-bit length field *)
Fits(i) == Len(written[i]) - 8 <= 65535

EmitsOnce(S, cmd) ==
    /\ Len(S.emitted) = 1
    /\ Len(S.emitted[1].data) >= 2
    /\ S.emitted[1].data[1] + S.emitted[1].data[2] * 256 = cmd
    /\ S.stage = "Idle"

(* the one written frame has come back and every byte of it has been read *)
RoundTripDone ==
    /\ Len(written) = 1
    /\ nitems = 1
    /\ line = <<>>
    /\ rx = written[1]

Now == [stage |-> stage, emitted |-> emitted]

(* C1, as stated: the bytes written by send_command, fed to process_byte    *)
(* from Idle, give exactly one parse_packet call, with the original command *)
(* id, and leave the decoder in Idle -- for every argument list.            *)
C1_RoundTripAny ==
    \A i \in 1..Len(written) : EmitsOnce(Decoded(written[i]), sent[i].cmd)

(* C1, amended: the same for every argument list whose payload (command id, *)
(* length of the arguments, arguments) is at most 65535 bytes long; checked *)
(* on the decoder applied to each written frame, and on the session itself  *)
(* once the written frame has come back over the line in any chunking.      *)
C1_RoundTrip ==
    /\ \A i \in 1..Len(written) :
          Fits(i) => EmitsOnce(Decoded(written[i]), sent[i].cmd)
    /\ RoundTripDone => EmitsOnce(Now, sent[1].cmd)

C1_Witness ==
    /\ RoundTripDone
    /\ sent[1].cmd = 65535
    /\ sent[1].args = <<IntArg(4660)>>
    /\ Len(emitted) = 1

(* C3, as stated: the plaintext payload is the command id followed directly *)
(* by the serialized arguments; KeyPress with 19 gives 01 08 13; after a    *)
(* round trip the decoded bytes after the command id are the arguments.     *)
C3_PayloadIsCmdThenArgs ==
    \A i \in 1..Len(sent) :
        LET params == SerializeArgs(sent[i].args)
        IN /\ PlainOf(written[i]) = LE16(sent[i].cmd) \o params
           /\ (sent[i].cmd = KeyPress /\ sent[i].args = <<IntArg(19)>>)
                 => PlainOf(written[i]) = <<1, 8, 19>>
           /\ (RoundTripDone /\ Len(emitted) = 1)
                 => From(emitted[1].data, 3) = params

(* C3, amended: the plaintext payload is the command id, then the two-byte  *)
(* little-endian length of the serialized arguments (its low 16 bits), then *)
(* the arguments; KeyPress with 19 gives 01 08 01 00 13; after a round trip *)
(* the decoded bytes are that payload.                                      *)
C3_PayloadHasLength ==
    \A i \in 1..Len(sent) :
        LET params == SerializeArgs(sent[i].args)
        IN /\ PlainOf(written[i]) = LE16(sent[i].cmd) \o LE16(Len(params)) \o params
           /\ (sent[i].cmd = KeyPress /\ sent[i].args = <<IntArg(19)>>)
                 => PlainOf(written[i]) = <<1, 8, 1, 0, 19>>
           /\ RoundTripDone
                 => /\ Len(emitted) = 1
                    /\ emitted[1].data = LE16(sent[1].cmd) \o LE16(Len(params)) \o params

C3_Witness ==
    /\ RoundTripDone
    /\ sent[1].cmd = KeyPress
    /\ sent[1].args = <<IntArg(19)>>
    /\ emitted = <<[data |-> <<1, 8, 1, 0, 19>>, err |-> "none"]>>

XorByte(a, b) ==
    LET bit(k) == IF (a \div (2 ^ k)) % 2 = (b \div (2 ^ k)) % 2 THEN 0 ELSE 2 ^ k
    IN bit(0) + bit(1) + bit(2) + bit(3) + bit(4) + bit(5) + bit(6) + bit(7)

(* the keystream table: 16 6C 14 E6 2E 91 0D 40 21 35 D5 40 13 03 E9 80 *)
KeystreamTable ==
    [i \in 0..15 |->
        <<16 + 6, 6 * 16 + 12, 16 + 4, 14 * 16 + 6, 2 * 16 + 14, 9 * 16 + 1, 13, 4 * 16,
          2 * 16 + 1, 3 * 16 + 5, 13 * 16 + 5, 4 * 16, 16 + 3, 3, 14 * 16 + 9, 8 * 16>>[i + 1]]

(* The CRC with polynomial 0x1021, MSB first, seed 0, as the remainder of   *)
(* the message taken one bit at a time: the bit leaving the register and    *)
(* the message bit decide whether the polynomial is XORed in.               *)
CrcBit(crc, bit) ==
    LET top == crc \div 32768
        low == (crc % 32768) * 2
    IN IF top # bit THEN BitXor(low, 4096 + 32 + 1) ELSE low

CrcByte(crc, byte) ==
    LET b(k) == (byte \div (2 ^ k)) % 2
    IN CrcBit(CrcBit(CrcBit(CrcBit(CrcBit(CrcBit(CrcBit(CrcBit(crc,
           b(7)), b(6)), b(5)), b(4)), b(3)), b(2)), b(1)), b(0))

RECURSIVE CrcRef(_, _, _, _)
CrcRef(s, crc, lo, hi) ==
    IF lo > hi THEN crc
    ELSE IF lo = hi THEN CrcByte(crc, s[lo])
    ELSE LET mid == (lo + hi) \div 2
             c1 == CrcRef(s, crc, lo, mid)
         IN IF c1 >= 0 THEN CrcRef(s, c1, mid + 1, hi) ELSE c1

(* C18: in every written frame with N ciphered payload bytes, payload byte  *)
(* k is the plaintext byte k ciphered at position k, and the two bytes      *)
(* before DC BA, deciphered at positions N and N+1, are the low and the     *)
(* high byte of the CRC (0x1021, MSB first, seed 0) of the N plaintext      *)
(* payload bytes.  The CRC of the text "123456789" is 0x31C3.               *)
C18_ChecksumAndCipher ==
    /\ CrcOver(<<49, 50, 51, 52, 53, 54, 55, 56, 57>>, 0, 1, 9) = 3 * 4096 + 1 * 256 + 12 * 16 + 3
    /\ \A i \in 1..Len(written) :
          \E w \in {written[i]} :
          \E params \in {SerializeArgs(sent[i].args)} :
          \E plain \in {LE16(sent[i].cmd) \o LE16(Len(params)) \o params} :
          \E crc \in {CrcRef(plain, 0, 1, Len(plain))} :
             LET N == Len(w) - 8
             IN /\ N = Len(plain)
                /\ \A k \in 0..(N - 1) :
                      w[k + 5] = XorByte(plain[k + 1], KeystreamTable[k % 16])
                /\ XorByte(w[N + 5], KeystreamTable[N % 16]) = crc % 256
                /\ XorByte(w[N + 6], KeystreamTable[(N + 1) % 16]) = crc \div 256
                /\ w[N + 7] = FootDC
                /\ w[N + 8] = FootBA

(* send_command(KeyPress, 19) has written AB CD 05 00 17 64 15 E6 3D 61 37 *)
(* DC BA                                                                   *)
C18_Witness ==
    /\ Len(written) = 1
    /\ sent[1] = [cmd |-> KeyPress, args |-> <<IntArg(19)>>]
    /\ written[1] = <<SyncAB, SyncCD, 5, 0, 23, 100, 21, 230, 61, 97, 55, FootDC, FootBA>>

(* the bytes the claim gives an argument: an int in the least of 1, 2 or 4 *)
(* bytes that holds it, low byte first; bytes as they are; one byte, the   *)
(* low 8 bits, for each element of a list                                  *)
Width(v) == IF v <= 255 THEN 1 ELSE IF v <= 65535 THEN 2 ELSE 4

ArgBytes(a) ==
    CASE a.t = "int" -> [k \in 1..Width(a.v) |-> (a.v \div (256 ^ (k - 1))) % 256]
      [] a.t = "bytes" -> a.v
      [] a.t = "zeros" -> [k \in 1..a.v |-> 0]
      [] a.t = "list" -> [k \in 1..Len(a.v) |-> a.v[k] % 256]

RECURSIVE AllArgBytes(_, _)
AllArgBytes(args, n) ==
    IF n = 0 THEN <<>> ELSE AllArgBytes(args, n - 1) \o ArgBytes(args[n])

(* C19: in every written frame the argument region (the plaintext after  *)
(* command id and argument length) is the arguments' bytes in argument   *)
(* order: each int in 1 byte if <= 0xFF, 2 bytes if <= 0xFFFF, else 4    *)
(* bytes, little-endian, decided per argument; bytes copied; one byte    *)
(* (low 8 bits) per list element.                                        *)
C19_ArgumentBytes ==
    \A i \in 1..Len(written) :
        \E expected \in {AllArgBytes(sent[i].args, Len(sent[i].args))} :
            From(PlainOf(written[i]), 5) = expected

(* ints on both sides of each width boundary, sent in one call *)
C19_Witness ==
    /\ Len(written) = 1
    /\ sent[1].args =
          <<IntArg(255), IntArg(256), IntArg(65535), IntArg(65536), IntArg(2147483647)>>
    /\ From(PlainOf(written[1]), 5) =
          <<255,  0, 1,  255, 255,  0, 0, 1, 0,  255, 255, 255, 127>>

---------------------------------------------------------------------------
(* Claims about the decoder and the screen, under SpecRecv *)

(* w has the shape of a frame: AB CD, a length field counting the payload  *)
(* bytes, the payload, two checksum bytes, DC BA                            *)
WellFormed(w) ==
    /\ Len(w) >= 8
    /\ w[1] = SyncAB
    /\ w[2] = SyncCD
    /\ LenField(w) = Len(w) - 8
    /\ w[Len(w) - 1] = FootDC
    /\ w[Len(w)] = FootBA

Last(q) == q[Len(q)]

IsScreenCall(e) ==
    /\ Len(e.data) >= 5
    /\ e.data[1] + e.data[2] * 256 = GetScreen
    /\ e.err = "none"

(* indexes (1-based, of the first byte) of the triplets of t that address *)
(* the bitmap                                                             *)
InRange(t) ==
    {j \in {3 * n + 1 : n \in 0..((Len(t) \div 3) - 1)} :
        t[j + 1] < 128 /\ t[j + 2] * 8 < 64}

(* the 8-row group triplet j of t addresses *)
Group(t, j) == {<<t[j + 2] * 8 + b, t[j + 1]>> : b \in 0..7}

Addressed(t) == UNION {Group(t, j) : j \in InRange(t)}

MaxOf(A) == CHOOSE x \in A : \A y \in A : y <= x

(* the pixels that are on after a full update with triplets t: those whose *)
(* last addressing triplet has their bit set                               *)
FullImage(t) ==
    {p \in Addressed(t) :
        LET j == MaxOf({i \in InRange(t) : p \in Group(t, i)})
        IN (t[j] \div (2 ^ (p[1] - t[j + 2] * 8))) % 2 = 1}

(* C2, as stated: garbage followed by one well-formed frame gives exactly *)
(* one emitted frame, the well-formed one.  The garbage is any prefix of  *)
(* the received bytes that holds no BA byte (so it completes no frame of  *)
(* its own), the frame has a payload, and no exception has cut a chunk.   *)
C2_Resync ==
    \A g \in 0..Len(rx) :
        LET f == SubSeq(rx, g + 1, Len(rx))
        IN ( /\ dropped = 0
             /\ \A i \in 1..g : rx[i] # FootBA
             /\ WellFormed(f)
             /\ Len(f) > 8 )
           => /\ Len(emitted) = 1
              /\ emitted[1].data = PlainOf(f)

(* C5: once a full screen update (diff flag 0) has been processed, and    *)
(* until the next screen update, the bitmap is the image of that update's *)
(* triplets alone: a pixel is on iff the last in-range triplet addressing *)
(* it has its bit set, whatever the bitmap held before.                   *)
C5_FullUpdate ==
    \A n \in 1..Len(emitted) :
        ( /\ IsScreenCall(emitted[n])
          /\ emitted[n].data[5] = 0
          /\ \A m \in (n + 1)..Len(emitted) : ~IsScreenCall(emitted[m]) )
        => /\ screen_data = FullImage(From(emitted[n].data, 6))
           /\ emitted[n].data = FullEmpty => screen_data = {}
           /\ emitted[n].data = FullOne => screen_data = {<<0, 0>>}

(* a full update applied over a bitmap that had other pixels lit *)
C5_Witness ==
    /\ Len(emitted) = 2
    /\ emitted[1].data = DiffOne
    /\ emitted[1].err = "none"
    /\ emitted[2].data = FullOne
    /\ emitted[2].err = "none"
    /\ screen_data = {<<0, 0>>}

(* a step in which parse_packet was called exactly once *)
OneCall == Len(emitted') = Len(emitted) + 1

(* C6: an incremental screen update (diff flag nonzero) leaves every pixel *)
(* outside the 8-row groups addressed by its in-range triplets as it was;  *)
(* triplets with column >= 128 or row_group * 8 >= 64 change nothing.      *)
C6_Incremental ==
    [][ ( /\ OneCall
          /\ IsScreenCall(Last(emitted'))
          /\ Last(emitted').data[5] # 0 )
        => LET t == From(Last(emitted').data, 6)
           IN screen_data' \ Addressed(t) = screen_data \ Addressed(t)
      ]_vars

(* an incremental update, holding out-of-range triplets, applied over a *)
(* bitmap with pixel (0, 0) lit                                          *)
C6_Witness ==
    /\ Len(emitted) = 2
    /\ emitted[1].data = FullOne
    /\ emitted[2].data = DiffOne
    /\ emitted[2].err = "none"
    /\ screen_data = {<<0, 0>>, <<9, 5>>}

(* C7: a screen frame whose triplet region is not a multiple of 3 bytes    *)
(* long fails with the format error (ValueError) and changes nothing else: *)
(* the bitmap is as before, in full and in incremental mode, no            *)
(* notification is raised and the decoder is in Idle.                      *)
C7_FormatError ==
    [][ ( /\ OneCall
          /\ Len(Last(emitted').data) >= 5
          /\ Last(emitted').data[1] + Last(emitted').data[2] * 256 = GetScreen
          /\ (Len(Last(emitted').data) - 5) % 3 # 0 )
        => /\ Last(emitted').err = "ValueError"
           /\ screen_data' = screen_data
           /\ notified' = notified
           /\ stage' = "Idle"
      ]_vars

(* a full-mode frame with a 4-byte triplet region, after pixel (0, 0) was lit *)
C7_Witness ==
    /\ Len(emitted) = 2
    /\ emitted[1].data = FullOne
    /\ emitted[2].data = BadFull
    /\ emitted[2].err = "ValueError"
    /\ screen_data = {<<0, 0>>}
    /\ notified = 1
    /\ stage = "Idle"

(* C8, as stated: a well-formed frame whose bytes arrive after a frame that *)
(* failed with the format error is still decoded and dispatched, however    *)
(* the stream is cut into data_received chunks.                             *)
C8_NoByteLost ==
    \A i \in 1..Len(rx) :
        LET f1 == SubSeq(rx, 1, i)
            f2 == SubSeq(rx, i + 1, Len(rx))
        IN ( /\ WellFormed(f1)
             /\ WellFormed(f2)
             /\ Len(f2) > 8
             /\ Len(emitted) >= 1
             /\ emitted[1].data = PlainOf(f1)
             /\ emitted[1].err = "ValueError" )
           => /\ Len(emitted) = 2
              /\ emitted[2].data = PlainOf(f2)

(* f with its two checksum bytes replaced by c *)
WithCrc(f, c) == [i \in 1..Len(f) |-> IF i = Len(f) - 3 THEN c[1]
                                      ELSE IF i = Len(f) - 2 THEN c[2]
                                      ELSE f[i]]

CrcProbes == {<<a, b>> : a, b \in {0, 1, SyncAB, FootDC, FootBA, 255}}

(* C9: a frame with sync bytes, length, payload and footer in place is     *)
(* emitted and dispatched whatever its two checksum bytes are, and with    *)
(* the same result: command id, payload, bitmap, notification.             *)
C9_ChecksumIgnored ==
    ( /\ WellFormed(rx)
      /\ Len(rx) > 8 )
    => /\ Len(emitted) = 1
       /\ emitted[1].data = PlainOf(rx)
       /\ \A c \in CrcProbes \cup {GoodCrc(PlainOf(rx))} :
             LET D == Decoded(WithCrc(rx, c))
             IN /\ D.emitted = emitted
                /\ D.screen_data = screen_data
                /\ D.notified = notified
                /\ D.stage = stage

(* a screen frame carrying DC BA in place of its checksum has been dispatched *)
C9_Witness ==
    /\ rx = DeviceFrame(FullTwo, <<FootDC, FootBA>>)
    /\ GoodCrc(FullTwo) # <<FootDC, FootBA>>
    /\ Len(emitted) = 1
    /\ emitted[1].err = "none"
    /\ screen_data = {<<1, 0>>, <<63, 127>>}
    /\ notified = 1

(* C10, as stated: after AB CD 00 00 the decoder expects the low checksum  *)
(* byte with an empty accumulator, and AB CD 00 00 c1 c2 DC BA completes a *)
(* frame and returns the decoder to Idle.                                   *)
C10_ZeroLength ==
    /\ rx = <<SyncAB, SyncCD, 0, 0>>
          => (stage = "CrcLSB" /\ data = <<>>)
    /\ (Len(rx) = 8 /\ WellFormed(rx))
          => (Len(emitted) = 1 /\ stage = "Idle")

(* a step in which data_received was called with a single byte *)
OneByte == Len(rx') = Len(rx) + 1

(* C14: a byte other than CD in stage CD, other than DC in stage DC, or    *)
(* other than BA in stage BA puts the decoder in Idle, with no frame       *)
(* emitted, no error raised, the bitmap unchanged and no notification; a   *)
(* frame is emitted only on byte BA in stage BA.                           *)
C14_SilentResync ==
    [][ OneByte =>
          LET byte == Last(rx')
          IN /\ ( \/ (stage = "CD" /\ byte # SyncCD)
                  \/ (stage = "DC" /\ byte # FootDC)
                  \/ (stage = "BA" /\ byte # FootBA) )
                => /\ stage' = "Idle"
                   /\ emitted' = emitted
                   /\ dropped' = dropped
                   /\ screen_data' = screen_data
                   /\ notified' = notified
             /\ emitted' # emitted => (stage = "BA" /\ byte = FootBA)
      ]_vars

(* a frame that ended in 00 instead of BA has been read to its end: its *)
(* payload byte was taken in, the decoder is in Idle, nothing was emitted *)
C14_Witness ==
    /\ rx = BadFooter
    /\ data = <<crypt(0, 0)>>
    /\ stage = "Idle"
    /\ emitted = <<>>
    /\ notified = 0
    /\ dropped = 0

(* C15: in every reachable state the accumulator holds as many bytes as *)
(* the count says (len(data) == p_cnt), and while the decoder is in the  *)
(* payload stage the count does not exceed the announced length          *)
(* (p_cnt <= p_len).                                                     *)
C15_CountMatchesData ==
    /\ Len(data) = p_cnt
    /\ stage = "Data" => p_cnt <= p_len

(* the decoder is two bytes into the payload of a second frame, the first *)
(* having been emitted                                                    *)
C15_Witness ==
    /\ Len(emitted) = 1
    /\ Len(emitted[1].data) > 2
    /\ stage = "Data"
    /\ p_cnt = 2
    /\ data = <<3, 8>>
    /\ p_len > 2

(* C16, as stated: whenever the decoder is back in Idle, after a completed *)
(* frame or after a framing failure (bad second sync byte, bad first or    *)
(* second footer byte), its whole state is at the initial values: length   *)
(* 0, count 0, empty accumulator.                                          *)
C16_ResetOnIdle ==
    stage = "Idle" => (p_len = 0 /\ p_cnt = 0 /\ data = <<>>)

(* C17: a completed frame whose command id is not GetScreen leaves the   *)
(* bitmap as it was and raises no notification; a GetScreen frame that is *)
(* decoded without error updates the bitmap and then raises exactly one   *)
(* notification, whose receiver finds the updated bitmap.                 *)
C17_DispatchByCommand ==
    [][ OneCall =>
          LET e == Last(emitted')
              t == From(e.data, 6)
          IN /\ (Len(e.data) < 2 \/ e.data[1] + e.data[2] * 256 # GetScreen)
                => /\ e.err = "none"
                   /\ screen_data' = screen_data
                   /\ notified' = notified
                   /\ shown' = shown
             /\ IsScreenCall(e)
                => /\ screen_data' = IF e.data[5] = 0
                                     THEN FullImage(t)
                                     ELSE (screen_data \ Addressed(t)) \cup FullImage(t)
                   /\ notified' = notified + 1
                   /\ shown' = screen_data'
      ]_vars

(* a full update has lit pixel (0, 0) and was notified once; the reply to *)
(* another command followed and changed nothing                           *)
C17_Witness ==
    /\ Len(emitted) = 2
    /\ emitted[1].data = FullOne
    /\ emitted[2] = [data |-> ReplyBody, err |-> "none"]
    /\ screen_data = {<<0, 0>>}
    /\ shown = {<<0, 0>>}
    /\ notified = 1

---------------------------------------------------------------------------
(* The decoder under a radio that never stops sending: one byte per         *)
(* data_received call, on a connection that stays up.  The history          *)
(* variables are not kept in this specification, and the announced payload  *)
(* length is capped, so that the state space is finite.                     *)

MaxLiveLen == 2        \* longest payload length announced by a frame

LiveBytes == {0, 1, 2, SyncAB, SyncCD, SyncB5, FootDC, FootBA}

(* data_received(bytes([b])) *)
ByteArrives(b) ==
    /\ protocol_transport
    /\ stage = "LenLSB" => b <= MaxLiveLen
    /\ stage = "LenMSB" => b = 0
    /\ \E S \in {Feed([stage |-> stage, data |-> data, p_len |-> p_len,
                       p_cnt |-> p_cnt, screen_data |-> screen_data,
                       emitted |-> <<>>, notified |-> 0, shown |-> shown,
                       dropped |-> 0, err |-> "none"], <<b>>, 1, 1)} :
          /\ stage' = S.stage
          /\ data' = S.data
          /\ p_len' = S.p_len
          /\ p_cnt' = S.p_cnt
          /\ screen_data' = S.screen_data
    /\ UNCHANGED <<probe, transport, protocol_transport, written, sent, returned,
                   line, rx, dropped, nitems, emitted, notified, shown>>

NextLive ==
    \/ Connect
    \/ \E b \in LiveBytes : ByteArrives(b)

(* the event loop runs connect() to its end and delivers every byte the *)
(* radio sends; the radio goes on sending                               *)
SpecLive ==
    /\ Init
    /\ [][NextLive]_vars
    /\ WF_vars(Connect)
    /\ WF_vars(\E b \in LiveBytes : ByteArrives(b))

(* C11, as stated: the decoder never hangs: whatever stage it is in, the  *)
(* bytes that go on arriving bring it back to Idle again and again, where *)
(* a later AB can start a new frame.                                      *)
C11_NeverHangs == []<>(stage = "Idle")

---------------------------------------------------------------------------
(* Claims about the connection, under Spec *)

(* C20: sending and receiving do not interfere.  A send_command call, at  *)
(* whatever point between data_received calls it runs, changes neither    *)
(* the decoder state (stage, length, count, accumulator) nor the bitmap,  *)
(* nor what was emitted or is waiting to be read; and if it writes, it    *)
(* passes one complete frame (AB CD, length, payload, checksum, DC BA) to *)
(* the transport in one write, after the frames written before.           *)
C20_NoInterference ==
    [][ Len(returned') = Len(returned) + 1
        => /\ UNCHANGED <<stage, p_len, p_cnt, data, screen_data>>
           /\ UNCHANGED <<emitted, notified, shown, line, rx, dropped>>
           /\ \/ written' = written
              \/ /\ Len(written') = Len(written) + 1
                 /\ SubSeq(written', 1, Len(written)) = written
                 /\ WellFormed(Last(written'))
      ]_vars

(* two commands were written, one behind the other, while the decoder *)
(* was three bytes into the payload of a frame                        *)
C20_Witness ==
    /\ returned = <<ReturnSent, ReturnSent>>
    /\ Len(written) = 2
    /\ sent[1].cmd = KeyPress
    /\ sent[2].cmd = GetScreen
    /\ WellFormed(written[1])
    /\ WellFormed(written[2])
    /\ stage = "Data"
    /\ p_cnt = 3
    /\ Len(rx) = 7

(* C12, as stated: a send_command called while the connection is not      *)
(* available (never opened, closed by close(), or lost) hands no bytes to *)
(* the transport and returns a value the caller can tell from that of a   *)
(* successful send.                                                       *)
C12_FailureReported ==
    [][ ( /\ Len(returned') = Len(returned) + 1
          /\ ~(transport /\ protocol_transport) )
        => /\ written' = written
           /\ Last(returned') # ReturnSent
      ]_vars

---------------------------------------------------------------------------
(* The cipher on its own: crypt called on a byte and a position, then *)
(* called again on its result with the same position.                 *)

MaxPos == 40           \* positions 0..MaxPos are tried, besides the far ones

FarPositions == {255, 256, 4095, 65535, 65536, 2147483647}

CryptCall(byte, xor_index) ==
    /\ probe = <<>>
    /\ probe' = [byte |-> byte, xor_index |-> xor_index, calls |-> 1,
                 out |-> crypt(byte, xor_index)]
    /\ UNCHANGED <<transport, protocol_transport, written, sent, returned,
                   line, nitems, decoderVars>>

CryptAgain ==
    /\ probe # <<>>
    /\ probe.calls = 1
    /\ probe' = [probe EXCEPT !.calls = 2, !.out = crypt(probe.out, probe.xor_index)]
    /\ UNCHANGED <<transport, protocol_transport, written, sent, returned,
                   line, nitems, decoderVars>>

NextCrypt ==
    \/ \E byte \in 0..255, xor_index \in (0..MaxPos) \cup FarPositions :
          CryptCall(byte, xor_index)
    \/ CryptAgain

SpecCrypt == Init /\ [][NextCrypt]_vars

(* C13: for every byte b and position i, crypt(b, i) is b XOR table[i mod 16] *)
(* with the fixed 16-byte table, and crypt(crypt(b, i), i) is b again.        *)
C13_CipherInvolution ==
    probe # <<>> =>
        /\ probe.calls = 1 =>
              probe.out = XorByte(probe.byte, KeystreamTable[probe.xor_index % 16])
        /\ probe.calls = 2 => probe.out = probe.byte

(* byte FF at position 31 (table entry 80) has been ciphered to 7F and back *)
C13_Witness ==
    /\ probe # <<>>
    /\ probe.byte = 255
    /\ probe.xor_index = 31
    /\ probe.calls = 2
    /\ probe.out = 255
    /\ crypt(255, 31) = 127

=============================================================================
